---- MODULE Spec2Model ----
(***************************************************************************)
(* Frame-sampling and inference-scheduling pipeline of src/App.js.         *)
(*                                                                         *)
(* Two execution contexts:                                                 *)
(*   - the frame-processor (worklet) thread, which runs frameProcessor     *)
(*     once per camera frame, one frame at a time;                         *)
(*   - the JS thread, which runs the model-load promise callbacks, the     *)
(*     performInference invocations posted by runInferenceJS, and React's  *)
(*     renders.  Its jobs run to completion between awaits.                *)
(*                                                                         *)
(* Time is in milliseconds and advances in steps of 100 ms.  Scores are    *)
(* in units of 1/10000 (0.95 is 9500) and class ids in units of 1/100      *)
(* (0.49 is 49), so that every comparison of the code is exact.            *)
(***************************************************************************)
EXTENDS Integers, Sequences, FiniteSets

VARIABLES
    now,              \* wall clock, ms (Date.now / performance.now)
    frameSeen,        \* a frame with timestamp `now` has been delivered
    lastCall,         \* <<>> or <<t>>: runAtTargetFps' last-admitted timestamp
    wPc,              \* position of the worklet within frameProcessor
    isInferenceBusy,  \* shared value, App.js:30
    isModelReady,     \* shared value, App.js:29
    sessionRef,       \* "null" or "session", App.js:28
    loadPc,           \* position of the model-load effect, App.js:36-46
    modelStatus,      \* React state, App.js:24
    scanResult,       \* React state, App.js:25
    latency,          \* React state, App.js:26
    tasks,            \* performInference invocations posted and not yet exited
    taskSeq,          \* number of invocations posted so far (their ids)
    stale,            \* a state setter ran and its render is still to come
    syncFlush,        \* TRUE: the renderer paints inside every state setter
                      \* (legacy root); FALSE: it batches a job's setters
    by,               \* history: id of the task that last wrote each field
    frames,           \* history: the frames that passed runAtTargetFps
    lastDone,         \* history: <<>> or <<record of the last task to exit>>
    gate,             \* history: "initial", then "held" from line 101 on and
                      \* "released" from line 74 on
    engineCalls,      \* history: number of session.run calls made
    frame,            \* <<>> or <<the width and height of the frame whose
                      \* region of interest is being computed>>
    crop              \* <<>> or <<the crop rectangle of lines 88-91>>

vars == <<now, frameSeen, lastCall, wPc, isInferenceBusy, isModelReady,
          sessionRef, loadPc, modelStatus, scanResult, latency, tasks,
          taskSeq, stale, syncFlush, by, frames, lastDone,
          gate, engineCalls, frame, crop>>

workletVars == <<frameSeen, lastCall, wPc, frames>>
loadVars == <<sessionRef, loadPc, modelStatus, isModelReady>>
taskVars == <<tasks, taskSeq, lastDone, engineCalls>>
reactVars == <<scanResult, latency, by>>
roiVars == <<frame, crop>>

----------------------------------------------------------------------------
(* Bounds of the model. *)

MaxTicks == 10
MaxTasks == 3

(* Program constants. *)

CONFIDENCE_THRESHOLD == 9500
TARGET_FPS == 2

----------------------------------------------------------------------------
(* Engine outputs: the data of the first output tensor.  Positions 0..3    *)
(* are not read by the code.                                               *)

Outputs ==
    { <<0, 0, 0, 0, 9500, 20>>,
      <<0, 0, 0, 0, 9501, 49>>,
      <<0, 0, 0, 0, 9700, 20>>,
      <<0, 0, 0, 0, 8000, 100>>,
      <<0, 0, 0, 0, 9950, 100>>,
      <<0, 0, 0, 0, 9700>>,
      <<0, 0, 0, 0>> }

(* data[i] of a typed array: <<v>>, or <<>> (undefined) past its end. *)
At(data, i) == IF i + 1 <= Len(data) THEN <<data[i + 1]>> ELSE <<>>

(* x > y of JavaScript with x possibly undefined: undefined > y is false. *)
JsGreater(x, y) == x # <<>> /\ x[1] > y

(* Math.round(x) === 0 for x in hundredths: Math.round is floor(x + 0.5);  *)
(* Math.round(undefined) is NaN, and NaN === 0 is false.                   *)
RoundsToZero(x) == x # <<>> /\ (x[1] + 50) \div 100 = 0

(* The decimal digits of a natural number, most significant first. *)
RECURSIVE Digits(_)
Digits(n) == IF n < 10 THEN <<n>> ELSE Append(Digits(n \div 10), n % 10)

AbsDiff(a, b) == IF a >= b THEN a - b ELSE b - a

(* Number.prototype.toFixed(0) of x/10000 * 100: the integer n for which   *)
(* n - x*100 is closest to zero, the larger n on a tie, as a digit string. *)
ToFixed0(s) ==
    LET Cand == {s \div 100, s \div 100 + 1}
        Best == { n \in Cand : \A m \in Cand :
                      AbsDiff(100 * n, s) <= AbsDiff(100 * m, s) }
    IN  Digits(CHOOSE n \in Best : \A m \in Best : m <= n)

(* Lines 59-69 with >= for >: the threshold slip. *)
InterpretAtLeast(data) ==
    LET score == At(data, 4)
        clsId == At(data, 5)
    IN  IF score # <<>> /\ score[1] >= CONFIDENCE_THRESHOLD
        THEN <<[label |-> IF RoundsToZero(clsId) THEN "FRONT" ELSE "BACK",
                score |-> ToFixed0(score[1])]>>
        ELSE <<>>

(* Lines 59-69: the value handed to setScanResult; <<>> is null. *)
Interpret(data) ==
    LET score == At(data, 4)
        clsId == At(data, 5)
    IN  IF JsGreater(score, CONFIDENCE_THRESHOLD)
        THEN <<[label |-> IF RoundsToZero(clsId) THEN "FRONT" ELSE "BACK",
                score |-> ToFixed0(score[1])]>>
        ELSE <<>>

----------------------------------------------------------------------------
(* The frame-processor thread.                                             *)

(* runAtTargetFps' interval for TARGET_FPS calls per second. *)
TargetIntervalMs == 1000 \div TARGET_FPS

(* runAtTargetFps(TARGET_FPS, f) at time t: whether f is called.  The      *)
(* last-admitted timestamp starts as "never", so the first call passes.    *)
runAtTargetFps(t) == lastCall = <<>> \/ t - lastCall[1] >= TargetIntervalMs

(* Line 84 without its first operand. *)
GateOpenNoBusy == isModelReady

(* Line 84 without its second operand. *)
GateOpenNoReady == ~isInferenceBusy

(* Line 84: the frame goes on iff neither operand of the early return holds. *)
GateOpen == ~(isInferenceBusy \/ ~isModelReady)

(* The entry the history keeps of a frame that passed runAtTargetFps. *)
(* It records the gate and the readiness the frame arrived to.             *)
FrameEntry(t, fate) ==
    [t |-> t, fate |-> fate, gate |-> gate, ready |-> isModelReady]

SetFate(fate) == [frames EXCEPT ![Len(frames)].fate = fate]

(* A frame is delivered only while the worklet is idle: the camera calls   *)
(* the frame processor for one frame at a time, with increasing timestamps. *)
FrameDelivered ==
    /\ wPc = "idle"
    /\ ~frameSeen
    /\ taskSeq < MaxTasks
    /\ frameSeen' = TRUE

(* Lines 80-85 with the early return of line 84 moved in front of          *)
(* runAtTargetFps: a frame dropped at the gate does not reach the limiter. *)
frameProcessorGateFirst ==
    /\ FrameDelivered
    /\ IF GateOpen /\ runAtTargetFps(now)
       THEN /\ lastCall' = <<now>>
            /\ frames' = Append(frames, FrameEntry(now, "processing"))
            /\ wPc' = "resize"
       ELSE UNCHANGED <<lastCall, frames, wPc>>
    /\ UNCHANGED <<now, isInferenceBusy, gate, syncFlush, stale>>
    /\ UNCHANGED <<loadVars, taskVars, reactVars>>
    /\ UNCHANGED roiVars

(* Lines 80-85 with a setScanResult(null) added to the early return of     *)
(* line 84: the callback clears the result when it drops a frame.          *)
frameProcessorClearsResult ==
    /\ FrameDelivered
    /\ IF runAtTargetFps(now)
       THEN /\ lastCall' = <<now>>
            /\ IF GateOpen
               THEN /\ frames' = Append(frames, FrameEntry(now, "processing"))
                    /\ wPc' = "resize"
                    /\ UNCHANGED scanResult
               ELSE /\ frames' = Append(frames, FrameEntry(now, "gateClosed"))
                    /\ wPc' = "idle"
                    /\ scanResult' = <<>>
       ELSE UNCHANGED <<lastCall, frames, wPc, scanResult>>
    /\ UNCHANGED <<now, isInferenceBusy, gate, syncFlush, stale>>
    /\ UNCHANGED <<loadVars, taskVars, latency, by>>
    /\ UNCHANGED roiVars

(* Lines 80-85: a frame arrives; runAtTargetFps decides whether the body   *)
(* runs, and the body returns at once when the gate is closed.             *)
frameProcessor ==
    /\ FrameDelivered
    /\ IF runAtTargetFps(now)
       THEN /\ lastCall' = <<now>>
            /\ IF GateOpen
               THEN /\ frames' = Append(frames, FrameEntry(now, "processing"))
                    /\ wPc' = "resize"
               ELSE /\ frames' = Append(frames, FrameEntry(now, "gateClosed"))
                    /\ wPc' = "idle"
       ELSE UNCHANGED <<lastCall, frames, wPc>>
    /\ UNCHANGED <<now, isInferenceBusy, gate, syncFlush, stale>>
    /\ UNCHANGED <<loadVars, taskVars, reactVars>>
    /\ UNCHANGED roiVars

(* Lines 86-106 without the try/catch: the exception leaves the callback. *)
WorkletAfterThrowUncaught == "crashed"

(* Lines 104-106: the catch logs and the callback returns normally. *)
WorkletAfterThrow == "idle"

ResizeOutcomes == {"buffer", "falsy", "throw"}

(* Lines 88-100 with the flag set before the resize instead of after it:   *)
(* a frame whose resize fails leaves the gate taken.                       *)
ResizeHoldingGate(outcome) ==
    /\ wPc = "resize"
    /\ outcome \in ResizeOutcomes
    /\ CASE outcome = "buffer" -> wPc' = "setBusy" /\ UNCHANGED frames
         [] outcome = "falsy" -> wPc' = "idle" /\ frames' = SetFate("noBuffer")
         [] outcome = "throw" -> /\ wPc' = WorkletAfterThrow
                                 /\ frames' = SetFate("resizeThrew")
    /\ isInferenceBusy' = TRUE
    /\ UNCHANGED <<now, frameSeen, lastCall, gate, syncFlush, stale>>
    /\ UNCHANGED <<loadVars, taskVars, reactVars>>
    /\ UNCHANGED roiVars

(* Lines 88-100: crop and resize.  resize returns a buffer, returns a      *)
(* falsy value, or throws.                                                 *)
Resize(outcome) ==
    /\ wPc = "resize"
    /\ outcome \in ResizeOutcomes
    /\ CASE outcome = "buffer" -> wPc' = "setBusy" /\ UNCHANGED frames
         [] outcome = "falsy" -> wPc' = "idle" /\ frames' = SetFate("noBuffer")
         [] outcome = "throw" -> /\ wPc' = WorkletAfterThrow
                                 /\ frames' = SetFate("resizeThrew")
    /\ UNCHANGED <<now, frameSeen, lastCall, isInferenceBusy, gate,
                   syncFlush, stale>>
    /\ UNCHANGED <<loadVars, taskVars, reactVars>>
    /\ UNCHANGED roiVars

(* Line 101 left out: the flag keeps its value. *)
AcquiredFlagKept == isInferenceBusy

(* Line 101: the value the worklet stores in isInferenceBusy. *)
AcquiredFlag == TRUE

(* Line 101. *)
SetBusy ==
    /\ wPc = "setBusy"
    /\ isInferenceBusy' = AcquiredFlag
    /\ gate' = "held"
    /\ wPc' = "dispatch"
    /\ UNCHANGED <<now, frameSeen, lastCall, frames, syncFlush, stale>>
    /\ UNCHANGED <<loadVars, taskVars, reactVars>>
    /\ UNCHANGED roiVars

(* The invocation record: its position, its locals (startTime, and data   *)
(* while lines 58-69 use it), and for the history how it ended.            *)
NewTask(id) ==
    [id |-> id, pc |-> "queued", startTime |-> 0, data |-> <<>>,
     how |-> "failed"]

DispatchOutcomes == {"posted", "throw"}

(* Line 102: copy the buffer and post performInference to the JS thread;   *)
(* the copy or the post may throw, which the catch of line 104 absorbs.    *)
Dispatch(outcome) ==
    /\ wPc = "dispatch"
    /\ outcome \in DispatchOutcomes
    /\ CASE outcome = "posted" ->
                /\ taskSeq' = taskSeq + 1
                /\ tasks' = tasks \cup {NewTask(taskSeq + 1)}
                /\ frames' = SetFate("admitted")
                /\ wPc' = "idle"
         [] outcome = "throw" ->
                /\ wPc' = WorkletAfterThrow
                /\ frames' = SetFate("dispatchThrew")
                /\ UNCHANGED <<tasks, taskSeq>>
    /\ UNCHANGED <<now, frameSeen, lastCall, isInferenceBusy, gate,
                   syncFlush, stale, lastDone, engineCalls>>
    /\ UNCHANGED <<loadVars, reactVars>>
    /\ UNCHANGED roiVars

----------------------------------------------------------------------------
(* The JS thread.                                                          *)

Task(id) == CHOOSE k \in tasks : k.id = id

TaskIds == { k.id : k \in tasks }

(* A job of the JS thread runs to completion: a new job (a promise         *)
(* callback, a posted performInference, the continuation of an await, a    *)
(* batched render) starts only when no job is in the middle of its         *)
(* synchronous part.                                                       *)
JsThreadFree ==
    /\ loadPc \notin {"line41", "line42"}
    /\ \A k \in tasks : k.pc \in {"queued", "awaiting"}

(* A state setter, lines 42, 44, 63, 68, 70: with a synchronously flushing *)
(* renderer the new state is painted before the setter returns; otherwise  *)
(* the paint waits for Render.                                             *)
Flush == stale' = ~syncFlush

(* Lines 112-152 read scanResult, latency and modelStatus when a render    *)
(* runs: inside every setter with a synchronously flushing renderer,       *)
(* between jobs of the JS thread otherwise.                                *)
DisplayCanRead == syncFlush \/ JsThreadFree

(* Line 37: the asset resolves and the effect calls InferenceSession.create. *)
AssetsLoaded ==
    /\ loadPc = "waiting"
    /\ loadPc' = "creating"
    /\ UNCHANGED <<now, isInferenceBusy, isModelReady, sessionRef, modelStatus,
                   gate, syncFlush, stale>>
    /\ UNCHANGED <<workletVars, taskVars, reactVars>>
    /\ UNCHANGED roiVars

(* Lines 39-40 without the assignment of line 40: the session is created   *)
(* and not stored.                                                         *)
CreateResolvesSessionNotStored ==
    /\ loadPc = "creating"
    /\ JsThreadFree
    /\ loadPc' = "line41"
    /\ UNCHANGED <<now, isInferenceBusy, isModelReady, modelStatus, sessionRef,
                   gate, syncFlush, stale>>
    /\ UNCHANGED <<workletVars, taskVars, reactVars>>
    /\ UNCHANGED roiVars

(* Lines 39-40: the session is created and stored. *)
CreateResolves ==
    /\ loadPc = "creating"
    /\ JsThreadFree
    /\ sessionRef' = "session"
    /\ loadPc' = "line41"
    /\ UNCHANGED <<now, isInferenceBusy, isModelReady, modelStatus,
                   gate, syncFlush, stale>>
    /\ UNCHANGED <<workletVars, taskVars, reactVars>>
    /\ UNCHANGED roiVars

(* Line 41. *)
SetModelReady ==
    /\ loadPc = "line41"
    /\ isModelReady' = TRUE
    /\ loadPc' = "line42"
    /\ UNCHANGED <<now, isInferenceBusy, sessionRef, modelStatus,
                   gate, syncFlush, stale>>
    /\ UNCHANGED <<workletVars, taskVars, reactVars>>
    /\ UNCHANGED roiVars

(* Line 42. *)
SetStatusReady ==
    /\ loadPc = "line42"
    /\ modelStatus' = "Ready"
    /\ loadPc' = "loaded"
    /\ Flush
    /\ UNCHANGED <<now, isInferenceBusy, isModelReady, sessionRef,
                   gate, syncFlush>>
    /\ UNCHANGED <<workletVars, taskVars, reactVars>>
    /\ UNCHANGED roiVars

(* Line 44: InferenceSession.create rejects. *)
CreateRejects ==
    /\ loadPc = "creating"
    /\ JsThreadFree
    /\ modelStatus' = "Error"
    /\ loadPc' = "failed"
    /\ Flush
    /\ UNCHANGED <<now, isInferenceBusy, isModelReady, sessionRef,
                   gate, syncFlush>>
    /\ UNCHANGED <<workletVars, taskVars, reactVars>>
    /\ UNCHANGED roiVars

(* The record the history keeps of a task that exits. *)
Exit(k, how) == <<[how |-> how, busyAfter |-> isInferenceBusy']>>

Replace(k, k2) == (tasks \ {k}) \cup {k2}

StartOutcomes == {"run", "throw"}

(* Lines 48-56 up to the await: the early return on a missing session,     *)
(* then the start time, the tensor and the engine call.  Building the      *)
(* tensor or calling run may throw, which the catch of line 71 absorbs.    *)
InferenceStart(id, outcome) ==
    /\ id \in TaskIds
    /\ Task(id).pc = "queued"
    /\ JsThreadFree
    /\ outcome \in StartOutcomes
    /\ LET k == Task(id)
           started == [k EXCEPT !.startTime = now]
       IN  IF sessionRef = "null"
           THEN /\ outcome = "run"
                /\ tasks' = tasks \ {k}
                /\ lastDone' = Exit(k, "noSession")
                /\ UNCHANGED engineCalls
           ELSE CASE outcome = "run" ->
                       /\ tasks' = Replace(k, [started EXCEPT !.pc = "awaiting"])
                       /\ engineCalls' = engineCalls + 1
                       /\ UNCHANGED lastDone
                  [] outcome = "throw" ->
                       /\ tasks' = Replace(k, [started EXCEPT !.pc = "finally"])
                       /\ UNCHANGED <<lastDone, engineCalls>>
    /\ UNCHANGED <<now, isInferenceBusy, gate, syncFlush, stale,
                   taskSeq>>
    /\ UNCHANGED <<workletVars, loadVars, reactVars>>
    /\ UNCHANGED roiVars

(* Lines 71-72 with the state reset in the catch: a failed call clears the *)
(* result and the latency.                                                 *)
InferenceRejectsClearing(id) ==
    /\ id \in TaskIds
    /\ Task(id).pc = "awaiting"
    /\ JsThreadFree
    /\ tasks' = Replace(Task(id), [Task(id) EXCEPT !.pc = "finally"])
    /\ scanResult' = <<>>
    /\ latency' = 0
    /\ Flush
    /\ UNCHANGED <<now, isInferenceBusy, gate, syncFlush, by,
                   taskSeq, lastDone, engineCalls>>
    /\ UNCHANGED <<workletVars, loadVars>>
    /\ UNCHANGED roiVars

(* Line 56: the engine call rejects; the catch of line 71 logs. *)
InferenceRejects(id) ==
    /\ id \in TaskIds
    /\ Task(id).pc = "awaiting"
    /\ JsThreadFree
    /\ tasks' = Replace(Task(id), [Task(id) EXCEPT !.pc = "finally"])
    /\ UNCHANGED <<now, isInferenceBusy, gate, syncFlush, stale,
                   taskSeq, lastDone, engineCalls>>
    /\ UNCHANGED <<workletVars, loadVars, reactVars>>
    /\ UNCHANGED roiVars

(* Lines 56-69: the engine call resolves with `data` as the first output;  *)
(* the result is derived from data[4] and data[5] and handed to            *)
(* setScanResult.                                                          *)
InferenceResolves(id, data) ==
    /\ id \in TaskIds
    /\ Task(id).pc = "awaiting"
    /\ JsThreadFree
    /\ data \in Outputs
    /\ tasks' = Replace(Task(id),
                        [Task(id) EXCEPT !.pc = "line70", !.data = data])
    /\ scanResult' = Interpret(data)
    /\ by' = [by EXCEPT !.result = id]
    /\ Flush
    /\ UNCHANGED <<now, isInferenceBusy, gate, syncFlush, latency,
                   taskSeq, lastDone, engineCalls>>
    /\ UNCHANGED <<workletVars, loadVars>>
    /\ UNCHANGED roiVars

(* Line 70. *)
InferenceSetLatency(id) ==
    /\ id \in TaskIds
    /\ Task(id).pc = "line70"
    /\ latency' = now - Task(id).startTime
    /\ by' = [by EXCEPT !.latency = id]
    /\ tasks' = Replace(Task(id),
                        [Task(id) EXCEPT !.pc = "finally", !.data = <<>>,
                                         !.how = "completed"])
    /\ Flush
    /\ UNCHANGED <<now, isInferenceBusy, gate, syncFlush, scanResult,
                   taskSeq, lastDone, engineCalls>>
    /\ UNCHANGED <<workletVars, loadVars>>
    /\ UNCHANGED roiVars

(* Lines 73-75 without the assignment: the flag keeps its value. *)
ReleasedFlagKept == isInferenceBusy

(* Line 74: the value the finally block stores in isInferenceBusy. *)
ReleasedFlag == FALSE

(* Lines 73-75: the finally block; the invocation exits. *)
InferenceFinally(id) ==
    /\ id \in TaskIds
    /\ Task(id).pc = "finally"
    /\ isInferenceBusy' = ReleasedFlag
    /\ gate' = "released"
    /\ tasks' = tasks \ {Task(id)}
    /\ lastDone' = Exit(Task(id), Task(id).how)
    /\ UNCHANGED <<now, syncFlush, stale, taskSeq, engineCalls>>
    /\ UNCHANGED <<workletVars, loadVars, reactVars>>
    /\ UNCHANGED roiVars

(* Lines 112-152: a batching renderer paints between jobs. *)
Render ==
    /\ ~syncFlush
    /\ JsThreadFree
    /\ stale
    /\ stale' = FALSE
    /\ UNCHANGED <<now, isInferenceBusy, gate, syncFlush>>
    /\ UNCHANGED <<workletVars, loadVars, taskVars, reactVars>>
    /\ UNCHANGED roiVars

(* The clock advances by 100 ms.  A step of the clock is longer than the   *)
(* synchronous part of any job: it is taken between jobs and callbacks.    *)
Tick ==
    /\ now < MaxTicks * 100
    /\ JsThreadFree
    /\ wPc = "idle"
    /\ now' = now + 100
    /\ frameSeen' = FALSE
    /\ UNCHANGED <<lastCall, wPc, frames>>
    /\ UNCHANGED <<isInferenceBusy, gate, syncFlush, stale>>
    /\ UNCHANGED <<loadVars, taskVars, reactVars>>
    /\ UNCHANGED roiVars

----------------------------------------------------------------------------

(* Lines 24-30: the state after the first render. *)
Init ==
    /\ now = 0
    /\ frameSeen = FALSE
    /\ lastCall = <<>>
    /\ wPc = "idle"
    /\ isInferenceBusy = FALSE
    /\ isModelReady = FALSE
    /\ sessionRef = "null"
    /\ loadPc = "waiting"
    /\ modelStatus = "Loading"
    /\ scanResult = <<>>
    /\ latency = 0
    /\ tasks = {}
    /\ taskSeq = 0
    /\ syncFlush \in BOOLEAN
    /\ stale = FALSE
    /\ by = [result |-> 0, latency |-> 0]
    /\ frames = <<>>
    /\ lastDone = <<>>
    /\ gate = "initial"
    /\ engineCalls = 0
    /\ frame = <<>>
    /\ crop = <<>>

Next ==
    \/ frameProcessor
    \/ \E o \in ResizeOutcomes : Resize(o)
    \/ SetBusy
    \/ \E o \in DispatchOutcomes : Dispatch(o)
    \/ AssetsLoaded
    \/ CreateResolves
    \/ SetModelReady
    \/ SetStatusReady
    \/ CreateRejects
    \/ \E id \in 1 .. MaxTasks, o \in StartOutcomes : InferenceStart(id, o)
    \/ \E id \in 1 .. MaxTasks : InferenceRejects(id)
    \/ \E id \in 1 .. MaxTasks, data \in Outputs : InferenceResolves(id, data)
    \/ \E id \in 1 .. MaxTasks : InferenceSetLatency(id)
    \/ \E id \in 1 .. MaxTasks : InferenceFinally(id)
    \/ Render
    \/ Tick

Spec == Init /\ [][Next]_vars

(* The frame callback is synchronous: once entered it runs on to its       *)
(* return.                                                                 *)
WorkletRuns ==
    \/ \E o \in ResizeOutcomes : Resize(o)
    \/ SetBusy
    \/ \E o \in DispatchOutcomes : Dispatch(o)

(* The JS thread runs the jobs it has: the continuation of the model load, *)
(* a posted performInference, and the continuation of its await once the   *)
(* engine call has returned or thrown, which every call eventually does.   *)
JsThreadRuns ==
    \/ SetModelReady
    \/ SetStatusReady
    \/ \E id \in 1 .. MaxTasks, o \in StartOutcomes : InferenceStart(id, o)
    \/ \E id \in 1 .. MaxTasks : InferenceRejects(id)
    \/ \E id \in 1 .. MaxTasks, data \in Outputs : InferenceResolves(id, data)
    \/ \E id \in 1 .. MaxTasks : InferenceSetLatency(id)
    \/ \E id \in 1 .. MaxTasks : InferenceFinally(id)

(* Spec with the scheduling of the two threads: neither thread stops while *)
(* it has a step to take.                                                  *)
LiveSpec == Spec /\ WF_vars(WorkletRuns) /\ WF_vars(JsThreadRuns)

----------------------------------------------------------------------------
(* The region of interest, lines 88-91, as a function of the frame's size. *)
(* Lengths are in units of 1/20000 pixel, in which 0.83 * width, 1.62      *)
(* times that, and the halves of the two margins are all whole numbers.    *)

SubPixel == 20000

(* The factors of lines 88 and 89, in hundredths. *)
WidthFraction == 83
AspectRatio == 162

(* Frame sizes in pixels: portrait, square and landscape. *)
FrameSides == {240, 320, 480, 640, 720, 1080, 1280, 1920, 2160, 3840}

FrameSizes == [width : FrameSides, height : FrameSides]

(* Lines 88-91: cropW, cropH, cropX and cropY of a frame f. *)
CropOf(f) ==
    LET cropW == (f.width * (SubPixel \div 100)) * WidthFraction
        cropH == (cropW \div 100) * AspectRatio
        cropX == (f.width * SubPixel - cropW) \div 2
        cropY == (f.height * SubPixel - cropH) \div 2
    IN  [x |-> cropX, y |-> cropY, width |-> cropW, height |-> cropH]

(* The callback is entered with a frame of some size. *)
FrameOfSize(f) ==
    /\ frame = <<>> \/ crop # <<>>
    /\ f \in FrameSizes
    /\ frame' = <<f>>
    /\ crop' = <<>>
    /\ UNCHANGED <<now, isInferenceBusy, gate, syncFlush, stale>>
    /\ UNCHANGED <<workletVars, loadVars, taskVars, reactVars>>

(* Lines 88-91. *)
ComputeCrop ==
    /\ frame # <<>>
    /\ crop = <<>>
    /\ crop' = <<CropOf(frame[1])>>
    /\ UNCHANGED <<now, isInferenceBusy, gate, syncFlush, stale, frame>>
    /\ UNCHANGED <<workletVars, loadVars, taskVars, reactVars>>

RoiNext ==
    \/ \E f \in FrameSizes : FrameOfSize(f)
    \/ ComputeCrop

(* The crop computation alone, over every frame size. *)
RoiSpec == Init /\ [][RoiNext]_vars

----------------------------------------------------------------------------
(* Properties.                                                             *)

FrameIndexes == 1 .. Len(frames)

(* C1 (single-flight): at most one performInference invocation is pending  *)
(* or running at any time; while one is, the busy flag is set, so no other *)
(* frame is admitted before it has run to its release; and a frame that    *)
(* got past the gate finds no invocation in flight.                        *)
C1_SingleFlight ==
    /\ Cardinality(tasks) <= 1
    /\ tasks # {} => isInferenceBusy
    /\ wPc \in {"resize", "setBusy", "dispatch"} => tasks = {}

(* A second task is in flight, after a frame that passed the limiter was   *)
(* turned away while the first one held the gate.                          *)
C1_Witness ==
    /\ taskSeq >= 2
    /\ tasks # {}
    /\ \E i \in FrameIndexes :
           frames[i].fate = "gateClosed" /\ frames[i].gate = "held"

(* C2 (release on every exit): every performInference invocation that has *)
(* exited, whether it completed or failed, left through the finally block  *)
(* with the busy flag false; and from a release until the next frame takes *)
(* the gate the flag stays false, so the next acquire succeeds.            *)
C2_ReleaseOnEveryExit ==
    /\ lastDone # <<>> =>
           /\ lastDone[1].how \in {"completed", "failed"}
           /\ ~lastDone[1].busyAfter
    /\ gate = "released" => ~isInferenceBusy

(* A task failed and exited, and the next frame got through the gate. *)
C2_Witness ==
    /\ lastDone # <<>>
    /\ lastDone[1].how = "failed"
    /\ gate = "released"
    /\ wPc = "setBusy"

(* C3 (rate limiting): whenever a frame is delivered, it passes the        *)
(* limiter iff it is the first frame or at least 500 ms after the last     *)
(* frame that passed; a frame that passes becomes the last-admitted        *)
(* timestamp and one that does not leaves it unchanged; and this holds     *)
(* whatever the busy flag and the readiness are.                           *)
C3_RateLimit ==
    [][(frameSeen' /\ ~frameSeen) =>
         LET passes == IF lastCall = <<>> THEN TRUE
                       ELSE now - lastCall[1] >= 500
         IN  IF passes
             THEN /\ lastCall' = <<now>>
                  /\ Len(frames') = Len(frames) + 1
                  /\ frames'[Len(frames')].t = now
             ELSE /\ lastCall' = lastCall
                  /\ frames' = frames]_vars

(* The frame delivered last was too early and left the limiter alone; the *)
(* last-admitted timestamp is that of a frame that passed the limiter      *)
(* while the gate was held.                                                *)
C3_Witness ==
    /\ frameSeen
    /\ lastCall # <<>>
    /\ lastCall[1] < now
    /\ Len(frames) >= 2
    /\ frames[Len(frames)].t = lastCall[1]
    /\ frames[Len(frames)].gate = "held"
    /\ frames[Len(frames)].t - frames[Len(frames) - 1].t >= 500

(* The value of a digit string. *)
RECURSIVE DigitsValue(_)
DigitsValue(d) ==
    IF d = <<>> THEN 0
    ELSE 10 * DigitsValue(SubSeq(d, 1, Len(d) - 1)) + d[Len(d)]

(* x / unit rounded to the nearest integer, halves upwards. *)
Rounded(x, unit) == (2 * x + unit) \div (2 * unit)

(* C4 (result interpretation): when an inference completes with a          *)
(* well-formed output of score s and class id c, the published result is   *)
(* absent iff s <= 0.95; otherwise its label is FRONT iff c rounds to 0,   *)
(* BACK otherwise, and its confidence reads round(s * 100).  In            *)
(* particular (0.9501, 0.49) gives FRONT 95, (0.97, 0.2) gives FRONT 97,   *)
(* and (0.80, 1.0) and (0.95, 0.2) give absent.                            *)
C4_Interpretation ==
    \A k \in tasks :
        (k.pc = "line70" /\ Len(k.data) >= 6) =>
            LET s == k.data[5]
                c == k.data[6]
            IN  /\ (scanResult = <<>>) <=> (s <= 9500)
                /\ s > 9500 =>
                       /\ scanResult[1].label =
                              IF Rounded(c, 100) = 0 THEN "FRONT" ELSE "BACK"
                       /\ DigitsValue(scanResult[1].score) = Rounded(s, 100)
                /\ (s = 9501 /\ c = 49) =>
                       scanResult = <<[label |-> "FRONT", score |-> <<9, 5>>]>>
                /\ (s = 9700 /\ c = 20) =>
                       scanResult = <<[label |-> "FRONT", score |-> <<9, 7>>]>>
                /\ (s = 8000 /\ c = 100) => scanResult = <<>>
                /\ (s = 9500 /\ c = 20) => scanResult = <<>>

(* An inference has just completed with score 0.9501 and class id 0.49     *)
(* and published FRONT 95.                                                 *)
C4_Witness ==
    \E k \in tasks :
        /\ k.pc = "line70"
        /\ k.data = <<0, 0, 0, 0, 9501, 49>>
        /\ scanResult = <<[label |-> "FRONT", score |-> <<9, 5>>]>>

(* C5 (nothing starts before the model is ready): while isModelReady is    *)
(* false no frame has gone past the gate, the busy flag is false, no       *)
(* invocation was posted and the engine was not called; a frame that       *)
(* arrived before readiness was turned away; and after a failed load       *)
(* isModelReady is false, with the failure shown as the status only.       *)
C5_NotReadyNoTask ==
    /\ ~isModelReady =>
           /\ ~isInferenceBusy
           /\ wPc = "idle"
           /\ tasks = {}
           /\ taskSeq = 0
           /\ engineCalls = 0
    /\ \A i \in FrameIndexes : ~frames[i].ready => frames[i].fate = "gateClosed"
    /\ loadPc = "failed" =>
           /\ ~isModelReady
           /\ sessionRef = "null"
           /\ modelStatus = "Error"

(* The load failed, and two frames have since passed the limiter. *)
C5_Witness ==
    /\ loadPc = "failed"
    /\ Len(frames) >= 2
    /\ now >= 500

(* C6 (failure isolation of the producer): the frame callback always       *)
(* returns normally, whatever failed in it or in the inference task, and   *)
(* the next frame is taken as soon as the callback is idle.                *)
C6_ProducerSurvives ==
    /\ wPc \in {"idle", "resize", "setBusy", "dispatch"}
    /\ (wPc = "idle" /\ ~frameSeen /\ taskSeq < MaxTasks) =>
           ENABLED frameProcessor

(* An inference failed, a later frame's resize threw, and a frame after    *)
(* that was processed.                                                     *)
C6_Witness ==
    /\ lastDone # <<>>
    /\ lastDone[1].how = "failed"
    /\ \E i \in FrameIndexes :
           /\ i < Len(frames)
           /\ frames[i].fate \in {"resizeThrew", "dispatchThrew"}

Malformed(data) == Len(data) >= 1 /\ Len(data) < 6

(* C7 (malformed output is a failure): in every step of a task whose first *)
(* output has fewer than 6 elements, scanResult and latency keep their     *)
(* values, as they do when the engine call rejects.                        *)
C7_MalformedAsEngineFailure ==
    [][(\E k \in tasks \cup tasks' : Malformed(k.data)) =>
           (scanResult' = scanResult /\ latency' = latency)]_vars

(* C8 (no starvation beyond the busy window): a frame that passed the      *)
(* limiter with the model ready, after a task released the gate and before *)
(* any other frame took it, is admitted once its preprocessing succeeds:   *)
(* it is never turned away at the gate and its hand-off posts a task.      *)
C8_NextFrameAdmitted ==
    \A i \in FrameIndexes :
        (frames[i].gate = "released" /\ frames[i].ready) =>
            frames[i].fate \in {"processing", "noBuffer", "resizeThrew",
                                "admitted"}

AdmittedFrames == { i \in FrameIndexes : frames[i].fate = "admitted" }

(* C9 (drop while busy, no queueing): a frame that passes the limiter      *)
(* while the gate is held is dropped for good, it is never admitted later; *)
(* every posted task belongs to one admitted frame; and the first frame    *)
(* that passes the limiter after the release is not turned away.  So with  *)
(* frames at 0, 500 and 1000 ms and a call of 800 ms, the frame at 500 ms  *)
(* is dropped and the one at 1000 ms is the next to be admitted.           *)
C9_DropWhileBusy ==
    /\ \A i \in FrameIndexes :
           /\ frames[i].gate = "held" => frames[i].fate = "gateClosed"
           /\ frames[i].gate = "released" => frames[i].fate # "gateClosed"
    /\ Cardinality(AdmittedFrames) = taskSeq
    /\ Cardinality(tasks) <= 1

(* Scenario B: the frame at 0 ms was admitted and its call took 800 ms,    *)
(* the frame at 500 ms was dropped at the gate, and the frame at 1000 ms   *)
(* was admitted.                                                           *)
C9_Witness ==
    /\ Len(frames) = 3
    /\ frames[1].t = 0 /\ frames[1].fate = "admitted"
    /\ frames[2].t = 500 /\ frames[2].fate = "gateClosed"
    /\ frames[2].gate = "held"
    /\ frames[3].t = 1000 /\ frames[3].fate = "admitted"
    /\ by.latency = 1 /\ latency = 800
    /\ taskSeq = 2

(* C10 (no torn publication): whenever the display can read the state,     *)
(* scanResult and latency are both initial or both written by the same     *)
(* task.                                                                   *)
C10_NoTornPublication == DisplayCanRead => by.result = by.latency

(* C11 (publish before release): once a task that completed has released   *)
(* the gate, and until the next frame takes it, what the display shows is  *)
(* that task's result and latency: the busy flag is never seen false, and  *)
(* no frame goes past the gate, while the render of the completed task's   *)
(* setters is still to come.                                               *)
C11_PublishBeforeRelease ==
    (lastDone # <<>> /\ lastDone[1].how = "completed" /\ gate = "released")
        => ~stale

PreprocessFailed(fate) == fate \in {"noBuffer", "resizeThrew"}

(* C12 (preprocessing failure is local): the step in which the resize of a *)
(* frame throws or yields no buffer drops that frame and nothing else: the *)
(* busy flag was false and stays false, no task is posted, scanResult and  *)
(* latency keep their values, and the callback returns; and the next frame *)
(* to pass the limiter after such a frame goes on to its own resize.       *)
C12_PreprocessFailureLocal ==
    [][/\ (wPc = "resize" /\ wPc' \notin {"resize", "setBusy"}) =>
              /\ wPc' = "idle"
              /\ PreprocessFailed(frames'[Len(frames')].fate)
              /\ ~isInferenceBusy /\ ~isInferenceBusy'
              /\ tasks = {} /\ tasks' = {}
              /\ taskSeq' = taskSeq
              /\ gate' = gate
              /\ scanResult' = scanResult
              /\ latency' = latency
       /\ (/\ Len(frames') = Len(frames) + 1
           /\ Len(frames) >= 1
           /\ PreprocessFailed(frames[Len(frames)].fate)) =>
              /\ frames'[Len(frames')].fate = "processing"
              /\ wPc' = "resize"]_vars

(* A result is on display, the resize of a later frame failed, and the     *)
(* frame after that one was admitted.                                      *)
C12_Witness ==
    /\ scanResult # <<>>
    /\ by.result = 1
    /\ Len(frames) = 3
    /\ PreprocessFailed(frames[2].fate)
    /\ frames[3].fate = "admitted"

(* The four fields of the shared pipeline state. *)
PipelineState == <<isModelReady, isInferenceBusy, scanResult, latency>>

(* A step of the frame callback, of a render, of a performInference        *)
(* invocation and of the model-load effect.                                *)
WorkletStep ==
    \/ wPc' # wPc
    \/ frames' # frames
    \/ lastCall' # lastCall
    \/ (frameSeen' /\ ~frameSeen)

RenderStep == stale /\ ~stale'

TaskStep == tasks' # tasks /\ ~WorkletStep

LoadStep == loadPc' # loadPc

(* C13 as stated: the state starts as {false, false, none, 0}, and no step *)
(* of the frame callback and no render changes any of the four fields.     *)
C13_OnlyTaskAndLoadWrite ==
    [][(WorkletStep \/ RenderStep) => PipelineState' = PipelineState]_vars

(* C13 (amended): the state starts as {false, false, none, 0}; isModelReady *)
(* is changed only by the model-load effect, scanResult and latency only   *)
(* by performInference, and isInferenceBusy is cleared only by             *)
(* performInference; the frame callback changes isInferenceBusy alone, and *)
(* only from false to true at line 101; a render changes none of the four. *)
C13_WritersOfPipelineState ==
    /\ PipelineState = <<FALSE, FALSE, <<>>, 0>>
    /\ [][/\ WorkletStep =>
                 /\ isModelReady' = isModelReady
                 /\ scanResult' = scanResult
                 /\ latency' = latency
                 /\ isInferenceBusy' # isInferenceBusy =>
                        (wPc = "setBusy" /\ ~isInferenceBusy /\ isInferenceBusy')
          /\ RenderStep => PipelineState' = PipelineState
          /\ isModelReady' # isModelReady => LoadStep
          /\ (scanResult' # scanResult \/ latency' # latency) => TaskStep
          /\ (isInferenceBusy /\ ~isInferenceBusy') => TaskStep]_vars

(* With the first task's result on display, the callback of a later frame  *)
(* has set the busy flag at line 101 and has yet to post its task.         *)
C13_Witness ==
    /\ wPc = "dispatch"
    /\ isInferenceBusy
    /\ tasks = {}
    /\ scanResult # <<>>
    /\ latency > 0

(* typeof v === "string" for the values a result's fields take: a string   *)
(* is a sequence of digits, a number is not.                               *)
IsDigitString(v) == v \in Seq(0 .. 9)

(* C14 (shape of the displayed state): after every step scanResult is      *)
(* absent or has a label among FRONT and BACK and, as its confidence, an   *)
(* integer in 0..100; latency is a non-negative integer; and scanResult    *)
(* changes only when a task that has just got its output replaces it.      *)
C14_ResultWellTyped ==
    [][/\ scanResult' # <<>> =>
              /\ scanResult'[1].label \in {"FRONT", "BACK"}
              /\ ~IsDigitString(scanResult'[1].score)
              /\ scanResult'[1].score \in 0 .. 100
       /\ latency' \in Nat
       /\ scanResult' # scanResult =>
              \E k \in tasks' : k.pc = "line70" /\ by'.result = k.id]_vars

(* Task k takes a step of its failure path: building the tensor or calling *)
(* the engine throws, the engine call rejects, or the finally block ends   *)
(* an invocation that did not complete.                                    *)
FailureStep(k) ==
    \/ /\ k.pc \in {"queued", "awaiting"}
       /\ \E k2 \in tasks' : k2.id = k.id /\ k2.pc = "finally"
    \/ /\ k.pc = "finally"
       /\ k.how = "failed"
       /\ k \notin tasks'

(* C15 (engine failure preserves the last result): every step of a task's  *)
(* failure path leaves scanResult, latency and isModelReady unchanged, the *)
(* failing task has written neither scanResult nor latency, so both are    *)
(* what they were when it started, and its last step clears the busy flag. *)
C15_FailurePreservesResult ==
    [][\A k \in tasks :
           FailureStep(k) =>
               /\ scanResult' = scanResult
               /\ latency' = latency
               /\ isModelReady' = isModelReady
               /\ by.result # k.id /\ by.latency # k.id
               /\ by' = by
               /\ k.pc = "finally" => ~isInferenceBusy']_vars

(* The first task published a result; the second failed and has exited,    *)
(* and the first task's result and latency are still in place.             *)
C15_Witness ==
    /\ taskSeq = 2
    /\ tasks = {}
    /\ lastDone # <<>>
    /\ lastDone[1].how = "failed"
    /\ scanResult # <<>>
    /\ by = [result |-> 1, latency |-> 1]
    /\ latency > 0

(* C17 (no stuck flag): whenever the frame callback is not running, the    *)
(* busy flag is true iff exactly one performInference invocation has been  *)
(* posted and has not exited; so a hand-off that fails after line 101 does *)
(* not leave the flag true with no invocation pending.                     *)
C17_NoStuckFlag ==
    wPc = "idle" => (isInferenceBusy <=> Cardinality(tasks) = 1)

(* C16 (liveness of the pipeline): with both threads running and every     *)
(* engine call returning or throwing, every state in which the busy flag   *)
(* is true is eventually followed by one in which it is false.             *)
C16_BusyEventuallyReleased == isInferenceBusy ~> ~isInferenceBusy

(* The state a failed hand-off leaves behind is permanent: once the flag   *)
(* is set with the callback returned and no invocation pending, every      *)
(* later step, a frame's arrival included, leaves it so.                   *)
StuckFlagStays ==
    [][(wPc = "idle" /\ isInferenceBusy /\ tasks = {}) =>
           (wPc' = "idle" /\ isInferenceBusy' /\ tasks' = {})]_vars

(* C18 (readiness implies handle): in every state isModelReady implies     *)
(* that sessionRef holds the session; isModelReady never goes back to      *)
(* false and the session is never cleared; so every posted invocation      *)
(* finds the session, and none exits through the early return of line 49.  *)
C18_ReadyImpliesSession ==
    /\ isModelReady => sessionRef = "session"
    /\ [][/\ isModelReady' => sessionRef' = "session"
          /\ isModelReady => isModelReady'
          /\ sessionRef = "session" => sessionRef' = "session"
          /\ tasks' # {} => sessionRef' = "session"
          /\ lastDone' # <<>> => lastDone'[1].how # "noSession"]_vars

(* After one invocation has exited, a second one has passed line 49 and    *)
(* is waiting for the engine.                                              *)
C18_Witness ==
    /\ isModelReady
    /\ lastDone # <<>>
    /\ \E k \in tasks : k.id = 2 /\ k.pc = "awaiting"

(* C19 (the region of interest lies inside the frame): for every frame     *)
(* size the crop rectangle of lines 88-91 has x >= 0, y >= 0,              *)
(* x + width <= frame.width and y + height <= frame.height.                *)
C19_RoiInsideFrame ==
    crop # <<>> =>
        LET c == crop[1]
            f == frame[1]
        IN  /\ c.x >= 0
            /\ c.y >= 0
            /\ c.x + c.width <= f.width * SubPixel
            /\ c.y + c.height <= f.height * SubPixel

====
